---- MODULE Spec2Model ----
(***************************************************************************)
(* Model of the MoonPhase component (second <script setup> block of        *)
(* src/frontend/src/components/CosmicClock.vue, lines 107-224): the props  *)
(* percent, phase, hemisphere, the computed refs isWaxing and pathD, and   *)
(* the render that evaluates them; and of App.vue (src/unnamed/part_001,   *)
(* lines 22-211): its refs, the debounce timer of the search box, and the  *)
(* requests and callbacks its handlers wait for.                           *)
(*                                                                         *)
(* JavaScript Numbers are IEEE-754 binary64 values.  They are modelled bit *)
(* for bit: a magnitude is a fixed-point number of Width bits, IntBits of  *)
(* them before the binary point, kept as a sequence of limbs of LimbBits   *)
(* bits (most significant first), and every arithmetic result is rounded   *)
(* to Precision significant bits, round-to-nearest, ties-to-even, as the   *)
(* hardware does.  TLC's integers are 32 bits wide, hence the limbs.       *)
(* With IntBits = 16 and LimbBits = 8 the second limb is the integer part  *)
(* of a value below 256: 22.5 reads <<0, 22, 128, 0, ...>>.                *)
(* Tuple() evaluates a function over 1..n once, into a sequence.           *)
(***************************************************************************)
EXTENDS Integers, Naturals, Sequences, FiniteSets, TLC

\* MoonPhase: the props, the computed refs, whether a render is queued, and
\* an outline an observer of the <path> element has noted (with its inputs).
VARIABLES percent, phase, hemisphere, isWaxing, pathD, dirty, noted

\* App (src/unnamed/part_001): the refs of its setup, the debounce timer, the
\* requests and callbacks not settled yet, and two history variables: the outcome of the latest
\* astro-data request, and whether a handler has hidden the dropdown since
\* the user last edited the query.
VARIABLES mounted, loading, error, astroData, searchQuery, coords, isSearching,
          locationDetails, suggestions, showSuggestions, debounceTimeout,
          timers, pending, latestResult, dismissed

moonVars == <<percent, phase, hemisphere, isWaxing, pathD, dirty, noted>>

appVars == <<mounted, loading, error, astroData, searchQuery, coords, isSearching,
             locationDetails, suggestions, showSuggestions, debounceTimeout,
             timers, pending, latestResult, dismissed>>

vars == <<moonVars, appVars>>

(***************************************************************************)
(* Fixed-point carrier of the binary64 magnitudes.                         *)
(***************************************************************************)
IntBits == 16
FracBits == 64
Precision == 53
LimbBits == 8

NumLimbs == (IntBits + FracBits + LimbBits - 1) \div LimbBits
Width == NumLimbs * LimbBits
Base == 2^LimbBits

SetMin(S) == CHOOSE i \in S : \A j \in S : i <= j
SetMax(S) == CHOOSE i \in S : \A j \in S : j <= i

Tuple(f, n) == SubSeq(f, 1, n)

\* Bit i has weight 2^(IntBits - i).
Limbs(bits) ==
  Tuple([j \in 1..NumLimbs |->
           LET horner[t \in 0..LimbBits] ==
                 IF t = 0 THEN 0
                 ELSE 2 * horner[t-1] + bits[(j - 1) * LimbBits + t]
           IN  horner[LimbBits]], NumLimbs)

Bits(a) ==
  Tuple([i \in 1..Width |->
           (a[(i - 1) \div LimbBits + 1]
              \div 2^(LimbBits - 1 - ((i - 1) % LimbBits))) % 2], Width)

FxZero == Tuple([j \in 1..NumLimbs |-> 0], NumLimbs)

\* The integer n, 0 <= n < 2^IntBits.
FxFromInt(n) ==
  Limbs(Tuple([i \in 1..Width |->
                 IF i <= IntBits THEN (n \div 2^(IntBits - i)) % 2 ELSE 0], Width))

\* 2^e, IntBits - Width <= e < IntBits.
FxPow2(e) == Limbs(Tuple([i \in 1..Width |-> IF i = IntBits - e THEN 1 ELSE 0], Width))

FxIsZero(a) == \A j \in 1..NumLimbs : a[j] = 0

FxLess(a, b) ==
  LET D == {j \in 1..NumLimbs : a[j] # b[j]}
  IN  D # {} /\ a[SetMin(D)] < b[SetMin(D)]

FxLeq(a, b) == ~FxLess(b, a)

\* a + b (the sum stays below 2^IntBits).
FxAdd(a, b) ==
  LET cin[j \in 1..NumLimbs] ==
        IF j = NumLimbs THEN 0 ELSE (a[j+1] + b[j+1] + cin[j+1]) \div Base
  IN  Tuple([j \in 1..NumLimbs |-> (a[j] + b[j] + cin[j]) % Base], NumLimbs)

\* a - b for a >= b.
FxSub(a, b) ==
  LET bin[j \in 1..NumLimbs] ==
        IF j = NumLimbs THEN 0
        ELSE IF a[j+1] - b[j+1] - bin[j+1] < 0 THEN 1 ELSE 0
  IN  Tuple([j \in 1..NumLimbs |-> (a[j] - b[j] - bin[j] + Base) % Base], NumLimbs)

FxAbsDiff(a, b) == IF FxLess(a, b) THEN FxSub(b, a) ELSE FxSub(a, b)

\* k * a for a small natural k (the product stays below 2^IntBits).
FxMulSmall(a, k) ==
  LET cin[j \in 1..NumLimbs] ==
        IF j = NumLimbs THEN 0 ELSE (k * a[j+1] + cin[j+1]) \div Base
  IN  Tuple([j \in 1..NumLimbs |-> (k * a[j] + cin[j]) % Base], NumLimbs)

\* Long division of a by a small natural d > 0: the quotient truncated to
\* the carrier, and whether a remainder is left ("sticky").
FxDivSmall(a, d) ==
  LET rem[j \in 0..NumLimbs] ==
        IF j = 0 THEN 0 ELSE (Base * rem[j-1] + a[j]) % d
  IN  [q      |-> Tuple([j \in 1..NumLimbs |-> (Base * rem[j-1] + a[j]) \div d], NumLimbs),
       sticky |-> rem[NumLimbs] # 0]

\* bits + 2^(IntBits-k): add one unit in position k (bits after k are zero).
BitsIncAt(bits, k) ==
  LET j == SetMax({i \in 1..k : bits[i] = 0})
  IN  Tuple([i \in 1..Width |-> IF i < j THEN bits[i] ELSE IF i = j THEN 1 ELSE 0], Width)

\* Round to nearest, ties to even, at bit position last.
BitsRoundAt(bits, sticky, last) ==
  IF last >= Width THEN bits
  ELSE
    LET guard == bits[last + 1]
        rest  == sticky \/ \E i \in (last + 2)..Width : bits[i] = 1
        trunc == Tuple([i \in 1..Width |-> IF i <= last THEN bits[i] ELSE 0], Width)
    IN  IF guard = 1 /\ (rest \/ bits[last] = 1)
        THEN BitsIncAt(trunc, last)
        ELSE trunc

BitsRound(bits, sticky) ==
  BitsRoundAt(bits, sticky, SetMin({i \in 1..Width : bits[i] = 1}) + Precision - 1)

\* Round a (plus a sticky remainder below its last bit) to Precision
\* significant bits: round to nearest, ties to even (IEEE-754 default).
FxRound(a, sticky) ==
  IF FxIsZero(a) THEN a ELSE Limbs(BitsRound(Bits(a), sticky))

(***************************************************************************)
(* JavaScript Numbers: finite values (sign and magnitude), the two         *)
(* infinities and NaN, with the IEEE-754 comparison and arithmetic rules.  *)
(***************************************************************************)
NaN == [cls |-> "nan", neg |-> FALSE, mag |-> FxZero]
Infinity == [cls |-> "inf", neg |-> FALSE, mag |-> FxZero]
Finite(neg, mag) == [cls |-> "finite", neg |-> neg, mag |-> mag]

NumFromInt(n) == Finite(n < 0, FxFromInt(IF n < 0 THEN -n ELSE n))
NumNeg(a) == IF a.cls = "nan" THEN a ELSE [a EXCEPT !.neg = ~a.neg]
NumIsNaN(a) == a.cls = "nan"
NumIsZero(a) == a.cls = "finite" /\ FxIsZero(a.mag)

MagLess(a, b) ==
  IF a.cls = "inf" THEN FALSE
  ELSE IF b.cls = "inf" THEN TRUE
  ELSE FxLess(a.mag, b.mag)

\* a < b; false when either operand is NaN; -0 and +0 are equal.
NumLt(a, b) ==
  /\ ~NumIsNaN(a)
  /\ ~NumIsNaN(b)
  /\ IF a.neg /\ ~b.neg THEN ~(NumIsZero(a) /\ NumIsZero(b))
     ELSE IF ~a.neg /\ b.neg THEN FALSE
     ELSE IF a.neg THEN MagLess(b, a)
     ELSE MagLess(a, b)

NumGt(a, b) == NumLt(b, a)
NumLeq(a, b) == ~NumIsNaN(a) /\ ~NumIsNaN(b) /\ ~NumLt(b, a)
NumGeq(a, b) == ~NumIsNaN(a) /\ ~NumIsNaN(b) /\ ~NumLt(a, b)

\* Math.abs
NumAbs(a) == IF a.cls = "nan" THEN a ELSE [a EXCEPT !.neg = FALSE]

\* a / d for a positive integer d.
NumDivInt(a, d) ==
  IF a.cls # "finite" THEN a
  ELSE LET r == FxDivSmall(a.mag, d)
       IN  Finite(a.neg, FxRound(r.q, r.sticky))

\* k * a for a positive integer k.
NumMulInt(k, a) ==
  IF a.cls # "finite" THEN a
  ELSE Finite(a.neg, FxRound(FxMulSmall(a.mag, k), FALSE))

NumAdd(a, b) ==
  IF NumIsNaN(a) \/ NumIsNaN(b) THEN NaN
  ELSE IF a.cls = "inf" THEN (IF b.cls = "inf" /\ a.neg # b.neg THEN NaN ELSE a)
  ELSE IF b.cls = "inf" THEN b
  ELSE IF a.neg = b.neg THEN Finite(a.neg, FxRound(FxAdd(a.mag, b.mag), FALSE))
  ELSE IF a.mag = b.mag THEN Finite(FALSE, FxZero)
  ELSE IF FxLess(a.mag, b.mag) THEN Finite(b.neg, FxRound(FxSub(b.mag, a.mag), FALSE))
  ELSE Finite(a.neg, FxRound(FxSub(a.mag, b.mag), FALSE))

NumSub(a, b) == NumAdd(a, NumNeg(b))

\* A decimal literal n/d of the source text: the binary64 nearest to it.
NumLiteral(n, d) == NumDivInt(NumFromInt(n), d)

(***************************************************************************)
(* Strings are sequences of one-character strings.                         *)
(***************************************************************************)
UpperCase == <<"A","B","C","D","E","F","G","H","I","J","K","L","M",
               "N","O","P","Q","R","S","T","U","V","W","X","Y","Z">>
LowerCase == <<"a","b","c","d","e","f","g","h","i","j","k","l","m",
               "n","o","p","q","r","s","t","u","v","w","x","y","z">>

LowerChar(c) ==
  IF \E k \in 1..Len(UpperCase) : UpperCase[k] = c
  THEN LowerCase[CHOOSE k \in 1..Len(UpperCase) : UpperCase[k] = c]
  ELSE c

\* String.prototype.toLowerCase
ToLowerCase(s) == Tuple([i \in 1..Len(s) |-> LowerChar(s[i])], Len(s))

\* String.prototype.includes
Includes(s, t) == \E i \in 1..(Len(s) - Len(t) + 1) : SubSeq(s, i, i + Len(t) - 1) = t

Waxing == <<"w","a","x","i","n","g">>
First == <<"f","i","r","s","t">>

(***************************************************************************)
(* The inputs the parent can bind to the props.                            *)
(***************************************************************************)
OutOfRange == 2

WaxingCrescent == <<"W","a","x","i","n","g"," ","C","r","e","s","c","e","n","t">>
WaxingGibbous == <<"W","a","x","i","n","g"," ","G","i","b","b","o","u","s">>
WaxingGibbousUpper == <<"W","A","X","I","N","G"," ","G","I","B","B","O","U","S">>
WaningGibbous == <<"W","a","n","i","n","g"," ","G","i","b","b","o","u","s">>
WaningCrescent == <<"W","a","n","i","n","g"," ","C","r","e","s","c","e","n","t">>
FirstQuarter == <<"F","i","r","s","t"," ","Q","u","a","r","t","e","r">>
LastQuarter == <<"L","a","s","t"," ","Q","u","a","r","t","e","r">>
FullMoon == <<"F","u","l","l"," ","M","o","o","n">>
NewMoon == <<"N","e","w"," ","M","o","o","n">>
Eclipse == <<"E","c","l","i","p","s","e">>
EmptyLabel == << >>

PhaseLabels ==
  { WaxingCrescent, WaxingGibbous, WaxingGibbousUpper, WaningGibbous,
    WaningCrescent, FirstQuarter, LastQuarter, FullMoon, NewMoon, Eclipse,
    EmptyLabel }

\* What the parent can bind to the hemisphere prop.
Hemispheres == {"Northern", "Southern", "southern", "Equatorial", ""}

\* hemisphere: { type: String, default: 'Northern' }: the default stands in
\* for a prop the parent does not bind.
HemisphereProp(bound, value) == IF bound THEN value ELSE "Northern"

\* The literals 0.5, 0.99 and 0.01 of the source text.
Half == NumLiteral(5, 10)
FullThreshold == NumLiteral(99, 100)
EmptyThreshold == NumLiteral(1, 100)

WholePercents == {NumFromInt(n) : n \in (0 - OutOfRange)..(100 + OutOfRange)}

HalfPercents ==
  {NumAdd(NumFromInt(n), Half) : n \in {0, 1, 22, 49, 50, 77, 98, 99}}

\* The binary64 neighbours of the thresholds 1, 50 and 99.
EdgePercents ==
  { Finite(FALSE, FxAdd(FxFromInt(1), FxPow2(-52))),
    Finite(FALSE, FxSub(FxFromInt(1), FxPow2(-53))),
    Finite(FALSE, FxAdd(FxFromInt(50), FxPow2(-47))),
    Finite(FALSE, FxSub(FxFromInt(50), FxPow2(-47))),
    Finite(FALSE, FxAdd(FxFromInt(99), FxPow2(-46))),
    Finite(FALSE, FxSub(FxFromInt(99), FxPow2(-46))) }

PercentValues ==
  WholePercents \cup HalfPercents \cup EdgePercents
    \cup {NaN, Infinity, NumNeg(Infinity)}

(***************************************************************************)
(* The component.                                                          *)
(***************************************************************************)
R == 45
Cx == 50
Top == 5
Bottom == 95

MoveTo(x, y) == [op |-> "M", x |-> x, y |-> y]
ArcTo(rx, ry, rot, large, sweep, x, y) ==
  [op |-> "A", rx |-> rx, ry |-> ry, rot |-> rot, large |-> large,
   sweep |-> sweep, x |-> x, y |-> y]
ClosePath == [op |-> "Z"]

IsWaxing_CaseSensitive(label) == Includes(label, Waxing) \/ Includes(label, First)

\* isWaxing: p.includes('waxing') || p.includes('first'), p the lower-cased phase
IsWaxing(label) ==
  LET p == ToLowerCase(label)
  IN  Includes(p, Waxing) \/ Includes(p, First)

\* const p = props.percent / 100
Fraction(pct) == NumDivInt(pct, 100)

LitRight_NoFlip(waxing, hemi) == waxing
LitRight_AnyCase(waxing, hemi) ==
  IF hemi \in {"Southern", "southern"} THEN ~waxing ELSE waxing

\* let litRight = isWaxing.value; if (props.hemisphere === 'Southern') litRight = !litRight
LitRight(waxing, hemi) == IF hemi = "Southern" THEN ~waxing ELSE waxing

\* if (p >= 0.99) return <full circle>
IsFullMoon_Strict(p) == NumGt(p, FullThreshold)
IsFullMoon(p) == NumGeq(p, FullThreshold)

\* if (p <= 0.01) return ''
IsNewMoon(p) == NumLeq(p, EmptyThreshold)

\* 'M 50,5 A 45,45 0 1,1 50,95 A 45,45 0 1,1 50,5'
FullDisk ==
  << MoveTo(Cx, Top),
     ArcTo(NumFromInt(R), R, 0, 1, 1, Cx, Bottom),
     ArcTo(NumFromInt(R), R, 0, 1, 1, Cx, Top) >>

\* ''
Empty == << >>

Rx_Radius(p) == NumMulInt(R, NumAbs(NumSub(Half, p)))
Rx_Signed(p) == NumMulInt(R * 2, NumSub(Half, p))

\* const rx = 45 * 2 * Math.abs(0.5 - p)
Rx(p) == NumMulInt(R * 2, NumAbs(NumSub(Half, p)))

InnerSweep_NoInvert(p, litRight) == IF NumGt(p, Half) THEN 1 ELSE 0

\* let innerSweep = 0; if (p > 0.5) innerSweep = 1; if (!litRight) innerSweep = innerSweep ? 0 : 1
InnerSweep(p, litRight) ==
  LET s == IF NumGt(p, Half) THEN 1 ELSE 0
  IN  IF ~litRight THEN (IF s # 0 THEN 0 ELSE 1) ELSE s

OuterArc_Mirrored(litRight) ==
  IF litRight
  THEN << MoveTo(Cx, Top), ArcTo(NumFromInt(R), R, 0, 0, 1, Cx, Bottom) >>
  ELSE << MoveTo(Cx, Top), ArcTo(NumFromInt(R), R, 0, 0, 1, Cx, Bottom) >>

\* litRight ? `M 50,5 A 45,45 0 0,1 50,95` : `M 50,95 A 45,45 0 0,1 50,5`
OuterArc(litRight) ==
  IF litRight
  THEN << MoveTo(Cx, Top), ArcTo(NumFromInt(R), R, 0, 0, 1, Cx, Bottom) >>
  ELSE << MoveTo(Cx, Bottom), ArcTo(NumFromInt(R), R, 0, 0, 1, Cx, Top) >>

Terminator_SamePole(rx, innerSweep, litRight) ==
  ArcTo(rx, R, 0, 0, innerSweep, Cx, IF litRight THEN Bottom ELSE Top)

\* `A ${rx},45 0 0,${innerSweep} ${litRight ? '50,5' : '50,95'}`
Terminator(rx, innerSweep, litRight) ==
  ArcTo(rx, R, 0, 0, innerSweep, Cx, IF litRight THEN Top ELSE Bottom)

\* The computed pathD, as the sequence of path commands its string spells.
PathD(pct, waxing, hemi) ==
  LET p == Fraction(pct)
      litRight == LitRight(waxing, hemi)
  IN  IF IsFullMoon(p) THEN FullDisk
      ELSE IF IsNewMoon(p) THEN Empty
      ELSE OuterArc(litRight)
             \o << Terminator(Rx(p), InnerSweep(p, litRight), litRight), ClosePath >>

\* How the SVG renderer draws an arc command that joins the two poles with
\* a vertical radius of half their distance: the centre is the midpoint of
\* the poles, the arc is half an ellipse, and the sweep flag picks the half
\* (1 = clockwise on screen: top -> right -> bottom, bottom -> left -> top).
\* A zero horizontal radius degenerates to the straight segment.
ArcSide(y0, arc) ==
  IF NumIsNaN(arc.rx) THEN "invalid"
  ELSE IF NumIsZero(arc.rx) THEN "line"
  ELSE IF (y0 < arc.y) = (arc.sweep = 1) THEN "right"
  ELSE "left"

(***************************************************************************)
(* App.vue (src/unnamed/part_001).  A ref that holds null or a value is a   *)
(* sequence: Null, or Some(value).  A place stands for its name and for    *)
(* its lat/lon; the date of the form is not changed.                       *)
(***************************************************************************)
Null == << >>
Some(x) == <<x>>

\* At most MaxPending requests and callbacks are outstanding at a time.
MaxPending == 2

\* The places the geocoder returns.
Places == {"Prague", "Brno"}

\* ref('Prusanky'), ref(48.85), ref(16.98): the form's initial values.
HomeQuery == "Prusanky"
HomeCoords == "48.85,16.98"

\* What the user types into the search box.
Typed == {"", "Pr", "Prague"}

\* searchQuery.value.length
QueryLength(q) ==
  CASE q = "" -> 0
    [] q = "Pr" -> 2
    [] q = "Brno" -> 4
    [] q = "Prague" -> 6
    [] q = HomeQuery -> 8

\* if (!searchQuery.value || searchQuery.value.length < 3)
MinQueryLength == 3

\* response.data of GET /search-location: a list of places, best match first.
SearchResults == {<< >>, <<"Prague">>, <<"Brno", "Prague">>}

\* response.data of GET /astro-data for the lat, lon of the request.
AstroDataFor(c) == [lat_lon |-> c]

ErrNotFound == "Location not found in the star charts."
ErrGeocoding == "Could not consult the cartographer (Geocoding Error)"
ErrUnsupported == "Your browser does not support celestial positioning."
ErrRealm == "Could not identify your realm from the stars."
ErrDenied == "Permission to view your realm was denied."
ErrSilent == "The stars remain silent... (Connection Error)"

\* An outstanding request or callback.  kind: "astro" (GET /astro-data),
\* "suggest" (GET /search-location of fetchSuggestions), "geocode" (GET
\* /search-location of searchLocation), "position" (getCurrentPosition),
\* "reverse" (GET /reverse-geocode).  by: the handler that awaits it
\* ("direct": onMounted or the Consult Stars button, which await nothing),
\* and for "suggest" the origin of the query change whose timer issued it.
Request(kind, arg, by) == [kind |-> kind, arg |-> arg, by |-> by]

Remove(seq, i) == SubSeq(seq, 1, i - 1) \o SubSeq(seq, i + 1, Len(seq))

Range(seq) == {seq[i] : i \in 1..Len(seq)}

Room == Len(pending) < MaxPending

\* The callers whose finally block releases isSearching after fetchData.
Searchers == {"search", "locate"}

\* The astro-data request at position i is the most recently issued one.
IsLatest(i) ==
  /\ latestResult = Null
  /\ \A j \in (i + 1)..Len(pending) : pending[j].kind # "astro"

\* fetchData up to its await: loading, error, astroData, and the request for
\* the lat/lon c, queued behind the requests rest.
FetchData(c, by, rest) ==
  /\ loading' = TRUE
  /\ error' = Null
  /\ astroData' = Null
  /\ pending' = Append(rest, Request("astro", c, by))
  /\ latestResult' = Null

Timer(val, by) == [val |-> val, by |-> by]

\* clearTimeout(debounceTimeout): a null or fired handle clears nothing, so
\* the handle of a fired timer is kept as null.
ClearTimeout(handle) == IF handle = Null THEN timers ELSE timers \ {handle[1]}

\* The watcher of searchQuery: clear the pending timer, start a new one.
WatchSearchQuery(newVal, by) ==
  /\ timers' = ClearTimeout(debounceTimeout) \cup {Timer(newVal, by)}
  /\ debounceTimeout' = Some(Timer(newVal, by))

\* searchQuery.value = newVal; the watcher runs when the value changed.
SetSearchQuery(newVal, by) ==
  /\ searchQuery' = newVal
  /\ IF newVal # searchQuery
     THEN WatchSearchQuery(newVal, by)
     ELSE UNCHANGED <<debounceTimeout, timers>>

\* The state after setup().
AppSetup ==
  /\ mounted = FALSE
  /\ loading = FALSE
  /\ error = Null
  /\ astroData = Null
  /\ searchQuery = HomeQuery
  /\ coords = HomeCoords
  /\ isSearching = FALSE
  /\ locationDetails = Null
  /\ suggestions = << >>
  /\ showSuggestions = FALSE
  /\ debounceTimeout = Null
  /\ timers = {}
  /\ pending = << >>
  /\ latestResult = Null
  /\ dismissed = FALSE

\* onMounted(() => { fetchData() })
OnMounted ==
  /\ ~mounted
  /\ mounted' = TRUE
  /\ FetchData(coords, "direct", pending)
  /\ UNCHANGED <<searchQuery, coords, isSearching, locationDetails, suggestions,
                 showSuggestions, debounceTimeout, timers, dismissed>>
  /\ UNCHANGED moonVars

\* <button @click="fetchData" :disabled="loading">
ConsultStars ==
  /\ mounted /\ ~loading /\ Room
  /\ FetchData(coords, "direct", pending)
  /\ UNCHANGED <<mounted, searchQuery, coords, isSearching, locationDetails,
                 suggestions, showSuggestions, debounceTimeout, timers,
                 dismissed>>
  /\ UNCHANGED moonVars

\* <input v-model="searchQuery">: the user edits the query.
TypeQuery(q) ==
  /\ mounted /\ q # searchQuery
  /\ SetSearchQuery(q, "user")
  /\ dismissed' = FALSE
  /\ UNCHANGED <<mounted, loading, error, astroData, coords, isSearching,
                 locationDetails, suggestions, showSuggestions, pending,
                 latestResult>>
  /\ UNCHANGED moonVars

\* if (newVal && (!locationDetails.value || newVal !== locationDetails.value.name))
DebounceGuard(newVal) ==
  newVal # "" /\ (locationDetails = Null \/ newVal # locationDetails[1])

\* The debounce timer t fires after 500 ms: the guard, then fetchSuggestions
\* up to its await.
DebounceFire(t) ==
  /\ t \in timers
  /\ timers' = timers \ {t}
  /\ IF DebounceGuard(t.val)
     THEN IF searchQuery = "" \/ QueryLength(searchQuery) < MinQueryLength
          THEN suggestions' = << >> /\ UNCHANGED pending
          ELSE /\ Room
               /\ pending' = Append(pending, Request("suggest", searchQuery, t.by))
               /\ UNCHANGED suggestions
     ELSE UNCHANGED <<suggestions, pending>>
  /\ debounceTimeout' = IF debounceTimeout = Some(t) THEN Null ELSE debounceTimeout
  /\ UNCHANGED <<mounted, loading, error, astroData, searchQuery, coords,
                 isSearching, locationDetails, showSuggestions,
                 latestResult, dismissed>>
  /\ UNCHANGED moonVars

\* fetchSuggestions after its await: suggestions.value = response.data || []
SuggestionsOk(i, data) ==
  /\ pending[i].kind = "suggest"
  /\ pending' = Remove(pending, i)
  /\ suggestions' = data
  /\ showSuggestions' = TRUE
  /\ UNCHANGED <<mounted, loading, error, astroData, searchQuery, coords,
                 isSearching, locationDetails, debounceTimeout, timers,
                 latestResult, dismissed>>
  /\ UNCHANGED moonVars

\* catch (err) { console.error("Autocomplete error", err) }
SuggestionsFail(i) ==
  /\ pending[i].kind = "suggest"
  /\ pending' = Remove(pending, i)
  /\ UNCHANGED <<mounted, loading, error, astroData, searchQuery, coords,
                 isSearching, locationDetails, suggestions, showSuggestions,
                 debounceTimeout, timers, latestResult, dismissed>>
  /\ UNCHANGED moonVars

\* <li @click="selectLocation(place)"> of the visible dropdown.
SelectLocation(loc) ==
  /\ mounted /\ showSuggestions /\ suggestions # << >>
  /\ loc \in Range(suggestions) /\ Room
  /\ SetSearchQuery(loc, "select")
  /\ coords' = loc
  /\ locationDetails' = Some(loc)
  /\ showSuggestions' = FALSE
  /\ suggestions' = << >>
  /\ FetchData(loc, "select", pending)
  /\ dismissed' = TRUE
  /\ UNCHANGED <<mounted, isSearching>>
  /\ UNCHANGED moonVars

\* searchLocation up to its await (Enter in the input, or the search button).
SearchLocation ==
  /\ mounted /\ searchQuery # "" /\ Room
  /\ isSearching' = TRUE
  /\ error' = Null
  /\ locationDetails' = Null
  /\ showSuggestions' = FALSE
  /\ pending' = Append(pending, Request("geocode", searchQuery, "search"))
  /\ dismissed' = TRUE
  /\ UNCHANGED <<mounted, loading, astroData, searchQuery, coords, suggestions,
                 debounceTimeout, timers, latestResult>>
  /\ UNCHANGED moonVars

\* searchLocation after its await: the first result and fetchData, or the
\* "not found" error and the finally block.
GeocodeOk(i, data) ==
  /\ pending[i].kind = "geocode"
  /\ IF data # << >>
     THEN /\ coords' = data[1]
          /\ locationDetails' = Some(data[1])
          /\ FetchData(data[1], "search", Remove(pending, i))
          /\ UNCHANGED isSearching
     ELSE /\ error' = Some(ErrNotFound)
          /\ isSearching' = FALSE
          /\ pending' = Remove(pending, i)
          /\ UNCHANGED <<coords, locationDetails, loading, astroData, latestResult>>
  /\ UNCHANGED <<mounted, searchQuery, suggestions, showSuggestions,
                 debounceTimeout, timers, dismissed>>
  /\ UNCHANGED moonVars

\* searchLocation: catch, finally.
GeocodeFail_NoFinally(i) ==
  /\ pending[i].kind = "geocode"
  /\ error' = Some(ErrGeocoding)
  /\ pending' = Remove(pending, i)
  /\ UNCHANGED <<mounted, loading, astroData, searchQuery, coords, isSearching,
                 locationDetails, suggestions, showSuggestions, debounceTimeout,
                 timers, latestResult, dismissed>>
  /\ UNCHANGED moonVars

GeocodeFail(i) ==
  /\ pending[i].kind = "geocode"
  /\ error' = Some(ErrGeocoding)
  /\ isSearching' = FALSE
  /\ pending' = Remove(pending, i)
  /\ UNCHANGED <<mounted, loading, astroData, searchQuery, coords,
                 locationDetails, suggestions, showSuggestions, debounceTimeout,
                 timers, latestResult, dismissed>>
  /\ UNCHANGED moonVars

\* getUserLocation in a browser without navigator.geolocation.
GetUserLocationUnsupported ==
  /\ mounted /\ ~isSearching
  /\ error' = Some(ErrUnsupported)
  /\ UNCHANGED <<mounted, loading, astroData, searchQuery, coords, isSearching,
                 locationDetails, suggestions, showSuggestions, debounceTimeout,
                 timers, pending, latestResult, dismissed>>
  /\ UNCHANGED moonVars

\* getUserLocation in a browser with navigator.geolocation (the button is
\* disabled while isSearching).
GetUserLocation ==
  /\ mounted /\ ~isSearching /\ Room
  /\ isSearching' = TRUE
  /\ error' = Null
  /\ locationDetails' = Null
  /\ pending' = Append(pending, Request("position", "", "locate"))
  /\ UNCHANGED <<mounted, loading, astroData, searchQuery, coords, suggestions,
                 showSuggestions, debounceTimeout, timers, latestResult,
                 dismissed>>
  /\ UNCHANGED moonVars

\* The success callback of getCurrentPosition up to its await.
PositionOk(i) ==
  /\ pending[i].kind = "position"
  /\ pending' = Append(Remove(pending, i), Request("reverse", "", "locate"))
  /\ UNCHANGED <<mounted, loading, error, astroData, searchQuery, coords,
                 isSearching, locationDetails, suggestions, showSuggestions,
                 debounceTimeout, timers, latestResult, dismissed>>
  /\ UNCHANGED moonVars

\* The error callback of getCurrentPosition.
PositionDenied(i) ==
  /\ pending[i].kind = "position"
  /\ error' = Some(ErrDenied)
  /\ isSearching' = FALSE
  /\ pending' = Remove(pending, i)
  /\ UNCHANGED <<mounted, loading, astroData, searchQuery, coords,
                 locationDetails, suggestions, showSuggestions, debounceTimeout,
                 timers, latestResult, dismissed>>
  /\ UNCHANGED moonVars

\* The success callback after its await: the place, the query, fetchData.
ReverseOk(i, loc) ==
  /\ pending[i].kind = "reverse"
  /\ coords' = loc
  /\ locationDetails' = Some(loc)
  /\ SetSearchQuery(loc, "locate")
  /\ FetchData(loc, "locate", Remove(pending, i))
  /\ UNCHANGED <<mounted, isSearching, suggestions, showSuggestions, dismissed>>
  /\ UNCHANGED moonVars

\* The success callback: catch, finally.
ReverseFail(i) ==
  /\ pending[i].kind = "reverse"
  /\ error' = Some(ErrRealm)
  /\ isSearching' = FALSE
  /\ pending' = Remove(pending, i)
  /\ UNCHANGED <<mounted, loading, astroData, searchQuery, coords,
                 locationDetails, suggestions, showSuggestions, debounceTimeout,
                 timers, latestResult, dismissed>>
  /\ UNCHANGED moonVars

\* The finally block of the caller that awaited fetchData.
Released(by) == IF by \in Searchers THEN FALSE ELSE isSearching

\* fetchData after its await: the data, finally; then the caller's finally.
AstroDataOk(i) ==
  /\ pending[i].kind = "astro"
  /\ astroData' = Some(AstroDataFor(pending[i].arg))
  /\ loading' = FALSE
  /\ isSearching' = Released(pending[i].by)
  /\ latestResult' =
       IF IsLatest(i) THEN Some(Some(AstroDataFor(pending[i].arg))) ELSE latestResult
  /\ pending' = Remove(pending, i)
  /\ UNCHANGED <<mounted, error, searchQuery, coords, locationDetails,
                 suggestions, showSuggestions, debounceTimeout, timers,
                 dismissed>>
  /\ UNCHANGED moonVars

\* fetchData: catch, finally; then the caller's finally.
AstroDataFail(i) ==
  /\ pending[i].kind = "astro"
  /\ error' = Some(ErrSilent)
  /\ loading' = FALSE
  /\ isSearching' = Released(pending[i].by)
  /\ latestResult' = IF IsLatest(i) THEN Some(Null) ELSE latestResult
  /\ pending' = Remove(pending, i)
  /\ UNCHANGED <<mounted, astroData, searchQuery, coords, locationDetails,
                 suggestions, showSuggestions, debounceTimeout, timers,
                 dismissed>>
  /\ UNCHANGED moonVars

\* The request or callback at position i settles.
Settle(i) ==
  /\ i \in 1..Len(pending)
  /\ \/ AstroDataOk(i)
     \/ AstroDataFail(i)
     \/ \E data \in SearchResults : SuggestionsOk(i, data)
     \/ SuggestionsFail(i)
     \/ \E data \in SearchResults : GeocodeOk(i, data)
     \/ GeocodeFail(i)
     \/ PositionOk(i)
     \/ PositionDenied(i)
     \/ \E loc \in Places : ReverseOk(i, loc)
     \/ ReverseFail(i)

(***************************************************************************)
(* MoonPhase under Vue's reactivity: a prop the parent rebinds to another  *)
(* value invalidates the computed refs and queues a render; the render     *)
(* evaluates them again.  App.vue does not instantiate MoonPhase, so the   *)
(* two components run apart: each leaves the other's variables alone.      *)
(***************************************************************************)
ReactivePercents == {NumFromInt(25), NumFromInt(75), NumFromInt(100)}
ReactivePhases == {WaxingCrescent, WaningGibbous}
ReactiveHemispheres == {"Northern", "Southern", "southern"}

Inputs == [percent |-> percent, phase |-> phase, hemisphere |-> hemisphere]

\* An outline seen in the <path> element, the inputs it was rendered from,
\* and whether a render from other inputs has happened since.
Noted(outline) == [inputs |-> Inputs, outline |-> outline, between |-> FALSE]

Init ==
  /\ percent \in PercentValues
  /\ phase \in PhaseLabels
  /\ \E bound \in BOOLEAN, value \in Hemispheres :
       hemisphere = HemisphereProp(bound, value)
  /\ isWaxing = FALSE
  /\ pathD = << >>
  /\ dirty = TRUE
  /\ noted = Null
  /\ AppSetup

Render_StaleIsWaxing ==
  /\ dirty
  /\ isWaxing' = IsWaxing(phase)
  /\ pathD' = PathD(percent, isWaxing, hemisphere)
  /\ dirty' = FALSE
  /\ noted' = IF noted # Null /\ noted[1].inputs # Inputs
              THEN Some([noted[1] EXCEPT !.between = TRUE])
              ELSE noted
  /\ UNCHANGED <<percent, phase, hemisphere>>
  /\ UNCHANGED appVars

\* The render effect reads pathD, which reads isWaxing: both are evaluated.
Render ==
  /\ dirty
  /\ isWaxing' = IsWaxing(phase)
  /\ pathD' = PathD(percent, IsWaxing(phase), hemisphere)
  /\ dirty' = FALSE
  /\ noted' = IF noted # Null /\ noted[1].inputs # Inputs
              THEN Some([noted[1] EXCEPT !.between = TRUE])
              ELSE noted
  /\ UNCHANGED <<percent, phase, hemisphere>>
  /\ UNCHANGED appVars

Next == Render

Spec == Init /\ [][Next]_vars

\* The parent binds another percent.
SetPercent(v) ==
  /\ v # percent
  /\ percent' = v
  /\ dirty' = TRUE
  /\ UNCHANGED <<phase, hemisphere, isWaxing, pathD, noted>>
  /\ UNCHANGED appVars

\* The parent binds another phase label.
SetPhase(label) ==
  /\ label # phase
  /\ phase' = label
  /\ dirty' = TRUE
  /\ UNCHANGED <<percent, hemisphere, isWaxing, pathD, noted>>
  /\ UNCHANGED appVars

SetHemisphere_Untracked(h) ==
  /\ h # hemisphere
  /\ hemisphere' = h
  /\ UNCHANGED <<percent, phase, isWaxing, pathD, dirty, noted>>
  /\ UNCHANGED appVars

\* The parent binds another hemisphere.
SetHemisphere(h) ==
  /\ h # hemisphere
  /\ hemisphere' = h
  /\ dirty' = TRUE
  /\ UNCHANGED <<percent, phase, isWaxing, pathD, noted>>
  /\ UNCHANGED appVars

\* <path :d="pathD">: what is displayed once the render has run.
Observe ==
  /\ ~dirty
  /\ noted' = Some(Noted(pathD))
  /\ UNCHANGED <<percent, phase, hemisphere, isWaxing, pathD, dirty>>
  /\ UNCHANGED appVars

InitReactive ==
  /\ percent = NumFromInt(25)
  /\ phase = WaxingCrescent
  /\ hemisphere = HemisphereProp(FALSE, "")
  /\ isWaxing = FALSE
  /\ pathD = << >>
  /\ dirty = TRUE
  /\ noted = Null
  /\ AppSetup

NextReactive ==
  \/ Render
  \/ Observe
  \/ \E v \in ReactivePercents : SetPercent(v)
  \/ \E label \in ReactivePhases : SetPhase(label)
  \/ \E h \in ReactiveHemispheres : SetHemisphere(h)

SpecReactive == InitReactive /\ [][NextReactive]_vars

(***************************************************************************)
(* App.vue: the user, the timer, the network and the geolocation API act   *)
(* in any order.                                                           *)
(***************************************************************************)
\* MoonPhase is not mounted.
MoonIdle ==
  /\ percent = NumFromInt(100)
  /\ phase = FullMoon
  /\ hemisphere = "Northern"
  /\ isWaxing = FALSE
  /\ pathD = << >>
  /\ dirty = FALSE
  /\ noted = Null

InitApp ==
  /\ AppSetup
  /\ MoonIdle

NextApp ==
  \/ OnMounted
  \/ ConsultStars
  \/ \E q \in Typed : TypeQuery(q)
  \/ \E t \in timers : DebounceFire(t)
  \/ \E loc \in Places : SelectLocation(loc)
  \/ SearchLocation
  \/ GetUserLocationUnsupported
  \/ GetUserLocation
  \/ \E i \in 1..Len(pending) : Settle(i)

SpecApp == InitApp /\ [][NextApp]_vars

\* SpecApp where every request and callback eventually settles.
SpecAppSettling == SpecApp /\ WF_vars(Settle(1))

(***************************************************************************)
(* The handlers that touch the busy flags, on their own: fetchData from    *)
(* onMounted and the button, searchLocation, getUserLocation, and the      *)
(* requests and callbacks they wait for; the user can clear the query,     *)
(* which makes searchLocation return at once.  The autocomplete (the       *)
(* timer, fetchSuggestions, selectLocation) writes neither flag.           *)
(***************************************************************************)
SettleBusy(i) ==
  /\ i \in 1..Len(pending)
  /\ \/ AstroDataOk(i)
     \/ AstroDataFail(i)
     \/ \E data \in SearchResults : GeocodeOk(i, data)
     \/ GeocodeFail(i)
     \/ PositionOk(i)
     \/ PositionDenied(i)
     \/ \E loc \in Places : ReverseOk(i, loc)
     \/ ReverseFail(i)

NextBusy ==
  \/ OnMounted
  \/ ConsultStars
  \/ TypeQuery("")
  \/ SearchLocation
  \/ GetUserLocationUnsupported
  \/ GetUserLocation
  \/ \E i \in 1..Len(pending) : SettleBusy(i)

\* Every request and callback eventually settles: the oldest one does.
SpecBusy == InitApp /\ [][NextBusy]_vars /\ WF_vars(SettleBusy(1))

(***************************************************************************)
(* Vocabulary of the properties.                                           *)
(***************************************************************************)
Rendered == ~dirty

N(n) == NumFromInt(n)

\* 1 < percent < 99
GeneralCase == NumGt(percent, N(1)) /\ NumLt(percent, N(99))

IsLune(d) ==
  /\ Len(d) = 4
  /\ d[1].op = "M" /\ d[2].op = "A" /\ d[3].op = "A" /\ d[4].op = "Z"

\* The lit side the inputs call for: waxing is lit on the right in the
\* Northern hemisphere, and the Southern hemisphere mirrors it.
WantLitRight == IF hemisphere = "Southern" THEN ~isWaxing ELSE isWaxing

SideOf(right) == IF right THEN "right" ELSE "left"

\* The half of the disk the outer arc of a lune runs along.
OuterSide(d) == ArcSide(d[1].y, d[2])

\* The side of the vertical axis the terminator of a lune passes on.
TerminatorSide(d) == ArcSide(d[2].y, d[3])

\* C1: at percent >= 99 the path is the full circle, at percent <= 1 it is
\* empty, and strictly between 1 and 99 it is neither, whatever the phase
\* label and the hemisphere.
C1_DegenerateBands ==
  Rendered =>
    /\ NumGeq(percent, N(99)) => pathD = FullDisk
    /\ NumLeq(percent, N(1)) => pathD = Empty
    /\ GeneralCase => pathD # FullDisk /\ pathD # Empty

C1_Witness ==
  /\ Rendered /\ percent = N(99) /\ pathD = FullDisk
  /\ hemisphere = "Southern" /\ phase = WaningCrescent

\* C2: in the general case (percent # 50) the region the path encloses is
\* a crescent on the lit side for percent < 50 (the terminator passes on the
\* lit side of the axis, the region is smaller than the lit half-disk) and a
\* gibbous for percent > 50 (the terminator passes on the unlit side, the
\* region is larger than the lit half-disk), for both lit sides.
C2_LuneShape ==
  (Rendered /\ GeneralCase /\ percent # N(50)) =>
    /\ IsLune(pathD)
    /\ OuterSide(pathD) = SideOf(WantLitRight)
    /\ NumLt(percent, N(50)) => TerminatorSide(pathD) = OuterSide(pathD)
    /\ NumGt(percent, N(50)) =>
         /\ TerminatorSide(pathD) \in {"left", "right"}
         /\ TerminatorSide(pathD) # OuterSide(pathD)

\* C3: the lit side is the right one exactly when the phase is waxing in
\* the Northern hemisphere, and exactly when it is not waxing in the
\* Southern hemisphere, at every percent.
C3_LitSide ==
  (Rendered /\ IsLune(pathD) /\ hemisphere \in {"Northern", "Southern"}) =>
    /\ OuterSide(pathD) = SideOf(WantLitRight)
    /\ pathD[1].y = (IF WantLitRight THEN Top ELSE Bottom)
    /\ pathD[3].y = pathD[1].y

C3_Witness ==
  /\ Rendered /\ percent = N(75) /\ phase = WaxingGibbous
  /\ hemisphere = "Southern" /\ OuterSide(pathD) = "left"

ToUpperChar(c) ==
  IF \E k \in 1..Len(LowerCase) : LowerCase[k] = c
  THEN UpperCase[CHOOSE k \in 1..Len(LowerCase) : LowerCase[k] = c]
  ELSE c

ToUpperCase(s) == Tuple([i \in 1..Len(s) |-> ToUpperChar(s[i])], Len(s))

\* word occurs in label at position i, letter case ignored
OccursAt(label, word, i) ==
  /\ i + Len(word) - 1 <= Len(label)
  /\ \A k \in 1..Len(word) : ToUpperChar(label[i + k - 1]) = ToUpperChar(word[k])

Mentions(label, word) == \E i \in 1..Len(label) : OccursAt(label, word, i)

\* C4: a phase label is waxing exactly when it contains "waxing" or "first",
\* letter case ignored; every other label, the empty one included, is waning,
\* and a label's upper- and lower-case variants classify like the label.
C4_WaxingClassification ==
  Rendered =>
    /\ isWaxing = (Mentions(phase, Waxing) \/ Mentions(phase, First))
    /\ isWaxing = (phase \in {WaxingCrescent, WaxingGibbous, WaxingGibbousUpper, FirstQuarter})
    /\ isWaxing = IsWaxing(ToUpperCase(phase))
    /\ isWaxing = IsWaxing(ToLowerCase(phase))

C4_Witness == Rendered /\ phase = WaxingGibbousUpper /\ isWaxing

\* C5: in the general case the terminator's sweep flag is 0 below 50 percent
\* and 1 above it when the lit side is the right one, and the inverse when
\* the lit side is the left one.
C5_TerminatorSweep ==
  (Rendered /\ GeneralCase /\ percent # N(50)) =>
    /\ IsLune(pathD)
    /\ pathD[3].sweep =
         (IF WantLitRight
          THEN (IF NumLt(percent, N(50)) THEN 0 ELSE 1)
          ELSE (IF NumLt(percent, N(50)) THEN 1 ELSE 0))
    /\ (percent = N(25) /\ phase = WaxingCrescent /\ hemisphere = "Northern")
         => pathD[3].sweep = 0
    /\ (percent = N(75) /\ phase = WaxingGibbous /\ hemisphere = "Southern")
         => pathD[3].sweep = 0

C5_Witness ==
  /\ Rendered /\ percent = N(75) /\ phase = WaxingGibbous
  /\ hemisphere = "Southern" /\ IsLune(pathD) /\ pathD[3].sweep = 0

\* |a - b| of two finite Numbers, exactly.
NumDist(a, b) ==
  IF a.neg = b.neg THEN FxAbsDiff(a.mag, b.mag) ELSE FxAdd(a.mag, b.mag)

\* |50 - percent|, exactly, for a finite percent >= 0.
OffQuarter == FxAbsDiff(FxFromInt(50), percent.mag)

\* C6 as stated: in the general case rx is 0.9 * |50 - percent|, that is
\* 10 * rx = 9 * |50 - percent|.
C6_RxExact ==
  (Rendered /\ GeneralCase) =>
    /\ IsLune(pathD)
    /\ pathD[3].rx.cls = "finite" /\ ~pathD[3].rx.neg
    /\ FxMulSmall(pathD[3].rx.mag, 10) = FxMulSmall(OffQuarter, 9)

\* C6, amended: in the general case the terminator's vertical radius is R
\* and its horizontal radius rx is within 2^-46 of 0.9 * |50 - percent|
\* (binary64 rounding of percent/100, of 0.5 - p and of the product); it is
\* exactly 0 at percent 50 and exactly 22.5 at 25 and 75, stays below R, and
\* is the same for every phase label and hemisphere.
C6_RxWithinRounding ==
  (Rendered /\ GeneralCase) =>
    /\ IsLune(pathD)
    /\ pathD[3].ry = R
    /\ pathD[3].rx.cls = "finite" /\ ~pathD[3].rx.neg
    /\ FxLeq(FxAbsDiff(FxMulSmall(pathD[3].rx.mag, 10), FxMulSmall(OffQuarter, 9)),
             FxMulSmall(FxPow2(-46), 10))
    /\ percent = N(50) => NumIsZero(pathD[3].rx)
    /\ percent \in {N(25), N(75)} => pathD[3].rx = NumAdd(N(22), Half)
    /\ NumLt(pathD[3].rx, N(R))
    /\ pathD[3].rx = PathD(percent, FALSE, "Northern")[3].rx

C6_Witness ==
  /\ Rendered /\ percent = N(70) /\ IsLune(pathD)
  /\ pathD[3].rx # N(18) /\ NumDist(pathD[3].rx, N(18)) = FxPow2(-48)

\* 100 - percent, when that is a binary64 value again.
Mirror == Finite(FALSE, FxSub(FxFromInt(100), percent.mag))
MirrorIsNumber == FxRound(Mirror.mag, FALSE) = Mirror.mag

\* C7 as stated: rx(p) = rx(100 - p) for every p strictly between 1 and 99.
C7_RxSymmetric ==
  (Rendered /\ GeneralCase /\ MirrorIsNumber) =>
    /\ IsLune(pathD)
    /\ pathD[3].rx = Rx(Fraction(Mirror))

\* C7, amended: for every p strictly between 1 and 99, rx(p) and rx(100 - p)
\* differ by at most 2^-45: they agree up to the binary64 rounding of the
\* three operations, not bit for bit.
C7_RxSymmetricWithinRounding ==
  (Rendered /\ GeneralCase /\ MirrorIsNumber) =>
    /\ IsLune(pathD)
    /\ pathD[3].rx.cls = "finite"
    /\ FxLeq(NumDist(pathD[3].rx, Rx(Fraction(Mirror))), FxPow2(-45))

C7_Witness ==
  /\ Rendered /\ percent = N(5) /\ IsLune(pathD)
  /\ pathD[3].rx = NumAdd(N(40), Half)
  /\ Rx(Fraction(Mirror)) # pathD[3].rx

\* C8: the outer arc of a lune is a half-circle of radius R between the
\* poles, from north to south when the lit side is the right one and from
\* south to north otherwise, through the extreme point of the disk on the
\* lit side.
C8_OuterArc ==
  (Rendered /\ GeneralCase) =>
    /\ IsLune(pathD)
    /\ pathD[2].rx = N(R) /\ pathD[2].ry = R /\ pathD[2].rot = 0
    /\ pathD[1].x = Cx /\ pathD[2].x = Cx
    /\ <<pathD[1].y, pathD[2].y>> = (IF WantLitRight THEN <<Top, Bottom>> ELSE <<Bottom, Top>>)
    /\ Bottom - Top = 2 * R
    /\ OuterSide(pathD) = SideOf(WantLitRight)

C8_Witness ==
  /\ Rendered /\ percent = N(30) /\ phase = LastQuarter /\ hemisphere = "Northern"
  /\ IsLune(pathD) /\ pathD[1].y = Bottom /\ OuterSide(pathD) = "left"

\* C9: every general-case path is move, outer arc, terminator arc, close;
\* the outer arc runs from one pole to the other, the terminator from there
\* back to the point of the move, and every endpoint is a pole.
C9_ClosedLune ==
  (Rendered /\ GeneralCase) =>
    /\ IsLune(pathD)
    /\ \A i \in 1..3 : pathD[i].x = Cx /\ pathD[i].y \in {Top, Bottom}
    /\ pathD[2].y # pathD[1].y
    /\ pathD[3].y = pathD[1].y

C9_Witness ==
  /\ Rendered /\ percent = N(50) /\ phase = FirstQuarter /\ hemisphere = "Southern"
  /\ IsLune(pathD) /\ pathD[1].y = Bottom /\ pathD[3].y = Bottom

Invalid(pct) == pct.cls # "finite" \/ NumLt(pct, N(0)) \/ NumGt(pct, N(100))

\* C10: for an invalid percent the result is the one of the clamped percent
\* (Empty below 0, FullDisk above 100), and no path carries a NaN radius.
C10_InvalidPercent ==
  (Rendered /\ Invalid(percent)) =>
    /\ NumLt(percent, N(0)) => pathD = Empty
    /\ NumGt(percent, N(100)) => pathD = FullDisk
    /\ \A i \in 1..Len(pathD) : pathD[i].op = "A" => ~NumIsNaN(pathD[i].rx)

\* C11: every hemisphere other than exactly "Southern" (the default of an
\* unbound prop, "Northern", a differently cased or unknown string, the empty
\* string) is treated as Northern: the lit side is not inverted and the path
\* is the one of hemisphere "Northern" with the same percent and phase.
C11_DefaultsToNorthern ==
  (Rendered /\ hemisphere # "Southern") =>
    /\ pathD = PathD(percent, isWaxing, "Northern")
    /\ IsLune(pathD) =>
         /\ pathD[1].y = (IF isWaxing THEN Top ELSE Bottom)
         /\ OuterSide(pathD) = SideOf(isWaxing)

C11_Witness ==
  /\ Rendered /\ hemisphere = "southern" /\ percent = N(30)
  /\ phase = WaxingCrescent /\ IsLune(pathD) /\ OuterSide(pathD) = "right"

\* C12: the outline is a function of (percent, phase, hemisphere) alone: an
\* outline noted earlier for the inputs that are rendered now is the outline
\* displayed now, whatever was rendered in between.
C12_Deterministic ==
  (Rendered /\ noted # Null /\ noted[1].inputs = Inputs) =>
    noted[1].outline = pathD

C12_Witness ==
  /\ Rendered /\ noted # Null /\ noted[1].inputs = Inputs /\ noted[1].between
  /\ percent = N(25) /\ phase = WaningGibbous /\ hemisphere = "Southern"
  /\ IsLune(pathD) /\ noted[1].outline = pathD

\* C13: once the queued render has run, the displayed outline is the one of
\* the current (the most recently bound) percent, phase and hemisphere, and
\* isWaxing is the classification of the current phase: nothing computed
\* from earlier inputs stays displayed.
C13_LastWriteWins ==
  Rendered =>
    /\ isWaxing = IsWaxing(phase)
    /\ pathD = PathD(percent, IsWaxing(phase), hemisphere)

C13_Witness ==
  /\ Rendered /\ noted # Null /\ noted[1].between
  /\ noted[1].inputs.hemisphere # hemisphere /\ noted[1].outline # pathD
  /\ percent = N(75) /\ phase = WaningGibbous /\ hemisphere = "Southern"
  /\ pathD = PathD(N(75), FALSE, "Southern")

\* The positions of the astro-data requests in flight.
Fetching(p) == {i \in 1..Len(p) : p[i].kind = "astro"}

\* The positions of what the invocations of searchLocation and
\* getUserLocation that have not reached their finally block wait for.
Searching(p) ==
  {i \in 1..Len(p) :
     \/ p[i].kind \in {"geocode", "position", "reverse"}
     \/ p[i].kind = "astro" /\ p[i].by \in Searchers}

\* C14: once no astro-data request is in flight, astroData is the outcome of
\* the most recently issued request: its data, or null if it failed.
C14_LatestRequestWins ==
  (mounted /\ Fetching(pending) = {}) => latestResult = Some(astroData)

\* C15: loading is true exactly while an astro-data request is in flight.
C15_LoadingWhileInFlight ==
  mounted => (loading <=> Fetching(pending) # {})

\* C16: at most one debounce timer is pending, and it is the one of the
\* current query; a suggestions request is for a query of at least
\* MinQueryLength characters, and none is issued by the timer that
\* selectLocation's rewrite of the query started.
C16_Debounce ==
  /\ Cardinality(timers) <= 1
  /\ \A t \in timers : t.val = searchQuery /\ debounceTimeout = Some(t)
  /\ \A i \in 1..Len(pending) :
       pending[i].kind = "suggest" =>
         /\ QueryLength(pending[i].arg) >= MinQueryLength
         /\ pending[i].by # "select"

\* <div v-if="showSuggestions && suggestions.length > 0">
DropdownVisible == showSuggestions /\ suggestions # << >>

\* C17: after selectLocation or searchLocation has hidden the dropdown, it
\* is not displayed again until the user edits the query.
C17_DropdownStaysHidden ==
  dismissed => ~DropdownVisible

\* C18: every invocation of searchLocation, getUserLocation and fetchData
\* releases its busy flag: isSearching and loading, once true, become false
\* again; the step in which an invocation ends, on success, on an empty
\* result or on failure, leaves its flag false; and a failure leaves an
\* error message.
C18_BusyFlagsReleased ==
  /\ isSearching ~> ~isSearching
  /\ loading ~> ~loading
  /\ [][/\ Cardinality(Searching(pending')) < Cardinality(Searching(pending))
             => ~isSearching'
        /\ Cardinality(Fetching(pending')) < Cardinality(Fetching(pending))
             => ~loading'
        /\ (\E i \in 1..Len(pending) :
              \/ AstroDataFail(i)
              \/ GeocodeFail(i)
              \/ GeocodeOk(i, << >>)
              \/ PositionDenied(i)
              \/ ReverseFail(i))
             => error' # Null]_vars

C18_Witness ==
  /\ mounted /\ pending = << >> /\ ~isSearching /\ ~loading
  /\ locationDetails = Some("Brno") /\ error = Some(ErrSilent)
  /\ astroData = Null
====
